---- MODULE Spec2Model ----
(***************************************************************************)
(* Model of the userservice engagement ledger (src/src/server.rs).         *)
(*                                                                         *)
(* State: the bpp_users table, the group membership table read by the      *)
(* user view, the wall clock, the ingest loop's position and the message   *)
(* it holds, and the outcome of the last RPC served by the query service;  *)
(* beside it the listener, main at its join, and the pool connection the   *)
(* loop holds.                                                             *)
(*                                                                         *)
(* Specifications.  Spec: the ingest loop with each iteration as one step, *)
(* the clock, GetUserById and the administrative stubs.  SpecQuery: the    *)
(* ingest loop beside GetUserById and FilterUsers.  SpecSupervisor: the    *)
(* two futures of main's join, the iteration split at pool.get(), with the *)
(* failures of the pool and of the save.  SpecCalc: applications of        *)
(* calculate_hours_and_money to values of its domain.                      *)
(*                                                                         *)
(* Time.  chrono's NaiveDateTime and Duration are pairs (secs, nanos) with *)
(* 0 <= nanos < 10^9; they are modelled as records of that shape, so that  *)
(* every quantity stays inside TLC's 32-bit integers while nanosecond      *)
(* arithmetic (carry, borrow, the `as i32` truncation) is kept.            *)
(***************************************************************************)
EXTENDS Integers, FiniteSets, Sequences, TLC

VARIABLES
    users,        \* bpp_users table: channel_id -> row, DOMAIN = persisted keys
    group_users,  \* group membership rows: set of <<channel_id, group>>
    clock,        \* value the next Utc::now().naive_utc() returns
    pc,           \* position of fetch_users_from_messages
    message,      \* the message held by the loop body, or NoMessage
    reply,        \* outcome of the request UserServer has served, until it is sent
    last,         \* history: the last message the loop processed
    lastName,     \* history: per channel, display_name of its last message
    processed,    \* history: number of messages the loop has processed
    srv,          \* the query service listener: "Serving", "Stopped", "Aborted"
    sup,          \* main at its join: "Joining", "Returned", "Aborted"
    held,         \* pool connections the ingest loop holds
    arrived,      \* history: the messages received from the stream, in order
    written,      \* history: the messages whose save has committed, in order
    upstream,     \* history: the subscription as the upstream left it
    calc          \* an application of calculate_hours_and_money, or NoCalc

\* the state beside the ledger: the two tasks and the pool
envVars == <<srv, sup, held, calc>>
logVars == <<arrived, written, upstream>>

vars == <<users, group_users, clock, pc, message, reply, last, lastName, processed, envVars, logVars>>

----------------------------------------------------------------------------
(* Bounds of the model *)

\* the clock stops advancing after this many idle thresholds past T0
MaxIdlePeriods == 1
\* the upstream delivers at most this many messages
MaxMessages == 2
\* the clock's sub-second part advances in 1 ns ticks up to this many
MaxClockNanos == 1
\* a FilterUsers request carries at most this many filter clauses
MaxFilters == 2

----------------------------------------------------------------------------
(* chrono arithmetic *)

NanosPerSec == 1000000000
SecsPerMinute == 60
\* 2^16: limb size used to truncate to 32 bits inside TLC's integers
Limb == 65536

\* chrono::Duration::seconds(s)
DurationSeconds(s) == [secs |-> s, nanos |-> 0]

\* chrono::Duration::minutes(m)
DurationMinutes(m) == [secs |-> m * SecsPerMinute, nanos |-> 0]

\* chrono::Duration::nanoseconds(n): floor division into (secs, nanos)
DurationNanoseconds(n) == [secs |-> n \div NanosPerSec, nanos |-> n % NanosPerSec]

\* Duration + Duration, and NaiveDateTime + Duration: add with carry
DurationAdd(a, b) ==
    LET n == a.nanos + b.nanos
    IN  IF n >= NanosPerSec
        THEN [secs |-> a.secs + b.secs + 1, nanos |-> n - NanosPerSec]
        ELSE [secs |-> a.secs + b.secs, nanos |-> n]

\* NaiveDateTime - NaiveDateTime: signed duration, subtract with borrow
TimeSub(a, b) ==
    LET n == a.nanos - b.nanos
    IN  IF n < 0
        THEN [secs |-> a.secs - b.secs - 1, nanos |-> n + NanosPerSec]
        ELSE [secs |-> a.secs - b.secs, nanos |-> n]

\* NaiveDateTime < NaiveDateTime
TimeLess(a, b) == a.secs < b.secs \/ (a.secs = b.secs /\ a.nanos < b.nanos)

TimeLeq(a, b) == a = b \/ TimeLess(a, b)

\* Rust's integer division truncates toward zero
TruncDiv(a, b) == IF a >= 0 THEN a \div b ELSE -((-a) \div b)

\* Duration::num_seconds: whole seconds, rounded toward zero
num_seconds(d) == IF d.secs < 0 /\ d.nanos > 0 THEN d.secs + 1 ELSE d.secs

\* Duration::num_minutes
num_minutes(d) == TruncDiv(num_seconds(d), SecsPerMinute)

\* x as i32 for x given as hi * 2^16 + lo with 0 <= hi, lo < 2^16
ToI32(hi, lo) == IF hi >= Limb \div 2 THEN (hi - Limb) * Limb + lo ELSE hi * Limb + lo

\* hours.num_nanoseconds().unwrap() as i32 for a duration of 0 <= secs < 2^15:
\* the TOTAL nanoseconds secs * 10^9 + nanos, truncated to its low 32 bits.
\* (The product is formed limb by limb; Some(..) is returned for every
\* duration below about 292 years, so unwrap does not panic here.)
num_nanoseconds_as_i32(d) ==
    LET gLo  == NanosPerSec % Limb
        gHi  == NanosPerSec \div Limb
        a    == d.secs * gLo
        b    == (d.secs * gHi) % Limb
        loS  == (a % Limb) + (d.nanos % Limb)
        hiS  == (a \div Limb) + b + (d.nanos \div Limb) + (loS \div Limb)
    IN  ToI32(hiS % Limb, loS % Limb)

----------------------------------------------------------------------------
(* Data *)

Channels == {"c1", "c2"}
\* keys a caller may ask for: the upstream's channels and one never seen
RequestIds == Channels \cup {"cX"}
Names == {"Alice", "Alice2"}

T0 == [secs |-> 0, nanos |-> 0]

NoUser == [absent |-> TRUE]
NoMessage == [none |-> TRUE]
NoCalc == [none |-> TRUE]

\* models::User::new
User_new(channel_id, display_name, hours_seconds, hours_nanos, money, first_seen_at, last_seen_at) ==
    [channel_id |-> channel_id, display_name |-> display_name,
     hours_seconds |-> hours_seconds, hours_nanos |-> hours_nanos,
     money |-> money, first_seen_at |-> first_seen_at,
     last_seen_at |-> last_seen_at]

\* models::User::check_if_exists
check_if_exists(table, channel_id) == channel_id \in DOMAIN table

\* models::User::get_from_database: Some(row) or None
get_from_database(table, channel_id) ==
    IF channel_id \in DOMAIN table THEN table[channel_id] ELSE NoUser

\* models::User::save_to_database: single-row upsert keyed by channel_id
save_to_database(table, user) ==
    [k \in DOMAIN table \cup {user.channel_id} |->
        IF k = user.channel_id THEN user ELSE table[k]]

\* models::User::to_userservice_user: the row's fields and the user's groups
to_userservice_user(user, memberships) ==
    [channel_id |-> user.channel_id, display_name |-> user.display_name,
     hours_seconds |-> user.hours_seconds, hours_nanos |-> user.hours_nanos,
     money |-> user.money, first_seen_at |-> user.first_seen_at,
     last_seen_at |-> user.last_seen_at,
     groups |-> {m[2] : m \in {x \in memberships : x[1] = user.channel_id}}]

----------------------------------------------------------------------------
(* calculate_hours_and_money *)

calculate_hours_and_money(user, now) ==
    LET hours_duration == DurationAdd(DurationSeconds(user.hours_seconds),
                                      DurationNanoseconds(user.hours_nanos))
        new_duration   == TimeSub(now, user.last_seen_at)
        hours          == DurationAdd(hours_duration, new_duration)
    IN  [user EXCEPT !.hours_seconds = num_seconds(hours),
                     !.hours_nanos   = num_nanoseconds_as_i32(hours),
                     !.money         = user.money + num_minutes(new_duration)]

----------------------------------------------------------------------------
(* fetch_users_from_messages: the body of the while loop *)

IdleThresholdMinutes == 5

\* Pool::builder().max_size(10)
PoolSize == 10

\* chrono::Duration::minutes(5) of line 132
IDLE_THRESHOLD == DurationMinutes(IdleThresholdMinutes)

\* variant: the existing row is never loaded, a new user is always constructed
LoadOrCreate_AlwaysCreate(table, m, now) ==
    User_new(m.channel_id, m.display_name, 0, 0, 0, now, now)

\* variant: a new user's first_seen_at is left at the zero timestamp
LoadOrCreate_ZeroFirstSeen(table, m, now) ==
    IF check_if_exists(table, m.channel_id)
    THEN get_from_database(table, m.channel_id)
    ELSE User_new(m.channel_id, m.display_name, 0, 0, 0, T0, now)

\* variant: User::new is given display_name and channel_id the wrong way round
LoadOrCreate_SwappedKey(table, m, now) ==
    IF check_if_exists(table, m.channel_id)
    THEN get_from_database(table, m.channel_id)
    ELSE User_new(m.display_name, m.channel_id, 0, 0, 0, now, now)

\* lines 108-124: load the row if it exists, else construct a new user
LoadOrCreate(table, m, now) ==
    IF check_if_exists(table, m.channel_id)
    THEN get_from_database(table, m.channel_id)
    ELSE User_new(m.channel_id, m.display_name, 0, 0, 0, now, now)

\* variant: the threshold is left out of the comparison and it is not strict
UserWasIdle_NoThreshold(user, now) == TimeLeq(user.last_seen_at, now)

\* line 132: the condition under which the hours are updated
UserWasIdle(user, now) ==
    TimeLess(DurationAdd(user.last_seen_at, IDLE_THRESHOLD), now)

\* variant: the condition reads the loaded last_seen_at (line 127 moved after
\* the if) and the comparison is not strict
UpdatedUser_BoundaryInclusive(loaded, m, now) ==
    LET user == [loaded EXCEPT !.display_name = m.display_name]
        idle == TimeLeq(DurationAdd(user.last_seen_at, IDLE_THRESHOLD), now)
        paid == IF idle THEN calculate_hours_and_money(user, now) ELSE user
    IN  [paid EXCEPT !.last_seen_at = now]

\* variant: the condition reads the loaded last_seen_at (line 127 moved after
\* the if), the comparison as written
UpdatedUser_ComparesStoredLastSeen(loaded, m, now) ==
    LET user == [loaded EXCEPT !.display_name = m.display_name]
        paid == IF UserWasIdle(user, now)
                THEN calculate_hours_and_money(user, now)
                ELSE user
    IN  [paid EXCEPT !.last_seen_at = now]

\* variant: line 126 is missing, the loaded display_name is kept
UpdatedUser_KeepsName(loaded, m, now) ==
    LET user == [loaded EXCEPT !.last_seen_at = now]
    IN  IF UserWasIdle(user, now)
        THEN calculate_hours_and_money(user, now)
        ELSE user

\* variant: line 127 is missing, the loaded last_seen_at is kept
UpdatedUser_KeepsLastSeen(loaded, m, now) ==
    LET user == [loaded EXCEPT !.display_name = m.display_name]
    IN  user

\* variant: first_seen_at is overwritten with now together with last_seen_at
UpdatedUser_ResetsFirstSeen(loaded, m, now) ==
    LET user == [loaded EXCEPT !.display_name = m.display_name,
                               !.first_seen_at = now,
                               !.last_seen_at = now]
    IN  IF UserWasIdle(user, now)
        THEN calculate_hours_and_money(user, now)
        ELSE user

\* lines 126-134: the value that is saved, from the loaded or created one.
\* last_seen_at is overwritten with now BEFORE the condition reads it.
UpdatedUser(loaded, m, now) ==
    LET user == [loaded EXCEPT !.display_name = m.display_name,
                               !.last_seen_at = now]
    IN  IF UserWasIdle(user, now)
        THEN calculate_hours_and_money(user, now)
        ELSE user

----------------------------------------------------------------------------
(* UserServer *)

AdminOps ==
    {"update_user", "update_users", "delete_user", "delete_users",
     "create_user", "user_has_permission",
     "get_groups", "update_group", "update_groups", "delete_group",
     "delete_groups", "create_group",
     "get_ranks", "update_rank", "update_ranks", "delete_rank",
     "delete_ranks", "create_rank"}

NoReply == [op |-> "none"]

\* variant: a miss is answered with the view of a default user
get_user_by_id_DefaultOnMiss(table, memberships, user_id) ==
    LET potential_user == get_from_database(table, user_id)
        found == IF potential_user # NoUser
                 THEN potential_user
                 ELSE User_new(user_id, "", 0, 0, 0, T0, T0)
    IN  [kind |-> "Ok", user |-> to_userservice_user(found, memberships)]

\* lines 149-164
get_user_by_id(table, memberships, user_id) ==
    LET potential_user == get_from_database(table, user_id)
    IN  IF potential_user # NoUser
        THEN [kind |-> "Ok", user |-> to_userservice_user(potential_user, memberships)]
        ELSE [kind |-> "Err", status |-> "not_found"]

\* The filter clauses a request may carry: one of each oneof case, and a
\* clause whose oneof is not set (filter.filter = None).
FilterClauses ==
    {[kind |-> "ChannelId", value |-> "c1"],
     [kind |-> "Name", value |-> "Alice"],
     [kind |-> "Hours", value |-> 3600],
     [kind |-> "Money", value |-> 60],
     [kind |-> "Unset"]}

SortingFields == {"Default", "HoursAsc", "HoursDesc", "MoneyAsc", "MoneyDesc"}

\* all lists of at most n filter clauses
RECURSIVE FilterLists(_)
FilterLists(n) ==
    IF n = 0 THEN {<<>>}
    ELSE LET shorter == FilterLists(n - 1)
         IN  shorter \cup {Append(l, f) : l \in {x \in shorter : Len(x) = n - 1}, f \in FilterClauses}

\* lines 178-191: the predicate one clause adds to the query
Matches(user, filter) ==
    CASE filter.kind = "ChannelId" -> user.channel_id = filter.value
      [] filter.kind = "Name"      -> user.display_name = filter.value
      [] filter.kind = "Hours"     -> user.hours_seconds = filter.value
      [] filter.kind = "Money"     -> user.money = filter.value

\* variant: the clauses are OR-ed (or_filter) instead of AND-ed
ApplyFilters_Any(table, filters) ==
    {table[k] : k \in {x \in DOMAIN table :
                          \E i \in 1..Len(filters) : Matches(table[x], filters[i])}}

\* lines 175-192: the rows selected by the boxed query after every
\* query.filter(..) has been applied
ApplyFilters(table, filters) ==
    {table[k] : k \in {x \in DOMAIN table :
                          \A i \in 1..Len(filters) : Matches(table[x], filters[i])}}

\* variant: asc() and desc() are exchanged
InOrder_Swapped(a, b, sorting) ==
    CASE sorting = "HoursAsc"  -> a.hours_seconds >= b.hours_seconds
      [] sorting = "HoursDesc" -> a.hours_seconds <= b.hours_seconds
      [] sorting = "MoneyAsc"  -> a.money >= b.money
      [] sorting = "MoneyDesc" -> a.money <= b.money
      [] sorting = "Default"   -> TRUE

\* lines 194-208: row a may come before row b under the order_by chosen
InOrder(a, b, sorting) ==
    CASE sorting = "HoursAsc"  -> a.hours_seconds <= b.hours_seconds
      [] sorting = "HoursDesc" -> a.hours_seconds >= b.hours_seconds
      [] sorting = "MoneyAsc"  -> a.money <= b.money
      [] sorting = "MoneyDesc" -> a.money >= b.money
      [] sorting = "Default"   -> TRUE

\* all orders in which a set of rows can be listed
RECURSIVE Listings(_)
Listings(rows) ==
    IF rows = {} THEN {<<>>}
    ELSE UNION {{<<r>> \o l : l \in Listings(rows \ {r})} : r \in rows}

\* line 209: query.load::<User>(&conn).  The store returns the selected rows
\* in some order that obeys the order_by; rows with equal keys, and all rows
\* when there is no order_by, come in an order the store chooses.
Load(rows, sorting) ==
    {l \in Listings(rows) :
        \A i, j \in 1..Len(l) : i < j => InOrder(l[i], l[j], sorting)}

\* lines 166-220: the outcomes filter_users can have.  A clause whose oneof
\* is not set makes line 177 unwrap None, which panics.
filter_users(table, memberships, filters, sorting) ==
    IF \E i \in 1..Len(filters) : filters[i].kind = "Unset"
    THEN {[kind |-> "Panic", text |-> "called Option::unwrap() on a None value"]}
    ELSE {[kind |-> "Ok",
           users |-> [i \in 1..Len(l) |-> to_userservice_user(l[i], memberships)],
           count |-> Len(l)] : l \in Load(ApplyFilters(table, filters), sorting)}

\* lines 222-343: every body is todo!(), which panics; no value is returned
admin_stub(op) == [kind |-> "Panic", text |-> "not yet implemented"]

----------------------------------------------------------------------------
(* Initial state *)

\* A database as the service may find it at start: the migrated, empty one,
\* or one already holding rows (rows obey the schema's ranges, and carry
\* timestamps not later than the clock).
EmptyDatabase == [table |-> <<>>, memberships |-> {}]

SeededDatabase ==
    [table |->
        ("c1" :> User_new("c1", "Alice", 3600, 500000000, 60, T0, T0))
        @@ ("c2" :> User_new("c2", "Bob", 7200, 0, 120, T0, T0))
        @@ ("c3" :> User_new("c3", "Carol", 60, 0, 60, T0, T0)),
     memberships |-> {<<"c1", "mods">>}]

InitDatabases == {EmptyDatabase, SeededDatabase}

Init ==
    /\ \E db \in InitDatabases :
          /\ users = db.table
          /\ group_users = db.memberships
    /\ clock = T0
    /\ pc = "Idle"
    /\ message = NoMessage
    /\ reply = NoReply
    /\ last = NoMessage
    /\ lastName = [c \in Channels |-> "none"]
    /\ processed = 0
    /\ srv = "Serving"
    /\ sup = "Joining"
    /\ held = 0
    /\ arrived = <<>>
    /\ written = <<>>
    /\ upstream = "Unsubscribed"
    /\ calc = NoCalc

----------------------------------------------------------------------------
(* Actions *)

\* The wall clock advances (never backwards) by the idle threshold or 1 ns.
ClockSteps == {DurationMinutes(IdleThresholdMinutes), DurationNanoseconds(1)}

Tick ==
    /\ \E d \in ClockSteps :
          LET t == DurationAdd(clock, d)
          IN  /\ t.secs <= MaxIdlePeriods * IdleThresholdMinutes * SecsPerMinute
              /\ t.nanos <= MaxClockNanos
              /\ clock' = t
    /\ UNCHANGED <<users, group_users, pc, message, reply, last, lastName, processed, envVars, logVars>>

\* variant: the stream is polled while the body still holds a message
AwaitingMessage_Overlapped(p) == p \in {"Streaming", "Processing"}

\* line 105: the loop awaits the stream only at its head, between iterations
AwaitingMessage(p) == p = "Streaming"

\* variant: while let Ok(Some(message)) = .. ends the loop on an error too
AfterStreamItem_ErrEndsLoop(item) ==
    CASE item = "Some" -> "Processing"
      [] item = "None" -> "Closed"
      [] item = "Err"  -> "Closed"

\* lines 105 and 140: where the loop goes on what stream.message().await
\* yields: Some enters the body, None leaves the loop to return Ok(()),
\* Err is returned by the ? operator
AfterStreamItem(item) ==
    CASE item = "Some" -> "Processing"
      [] item = "None" -> "Closed"
      [] item = "Err"  -> "Failed"

\* lines 100-103: subscribe_messages(..).await? succeeds
Subscribe ==
    /\ pc = "Idle"
    /\ pc' = "Streaming"
    /\ upstream' = "Open"
    /\ UNCHANGED <<users, group_users, clock, message, reply, last, lastName, processed, envVars, arrived, written>>

\* lines 100-103: subscribe_messages(..).await? returns Err
SubscribeError ==
    /\ pc = "Idle"
    /\ pc' = "Failed"
    /\ upstream' = "Errored"
    /\ UNCHANGED <<users, group_users, clock, message, reply, last, lastName, processed, envVars, arrived, written>>

\* line 105: stream.message().await? yields Some(message)
ReceiveMessage ==
    /\ AwaitingMessage(pc)
    /\ processed < MaxMessages
    /\ \E c \in Channels, n \in Names :
          message' = [channel_id |-> c, display_name |-> n]
    /\ arrived' = Append(arrived, message')
    /\ pc' = AfterStreamItem("Some")
    /\ UNCHANGED <<users, group_users, clock, reply, last, lastName, processed, envVars, written, upstream>>

\* lines 107-137: the held message is turned into a saved row
SaveMessage ==
    /\ LET now    == clock
           loaded == LoadOrCreate(users, message, now)
           user   == UpdatedUser(loaded, message, now)
       IN  /\ users' = save_to_database(users, user)
           /\ last' = [channel_id |-> message.channel_id,
                       display_name |-> message.display_name,
                       now |-> now,
                       before |-> get_from_database(users, message.channel_id),
                       rows_before |-> Cardinality(DOMAIN users)]
           /\ lastName' = [lastName EXCEPT ![message.channel_id] = message.display_name]
    /\ processed' = processed + 1
    /\ written' = Append(written, message)
    /\ message' = NoMessage
    /\ UNCHANGED <<group_users, clock, reply, srv, sup, calc, arrived, upstream>>

\* lines 106-138: the loop body, which contains no await: a connection is
\* taken, the message is saved and the connection is dropped
ProcessMessage ==
    /\ pc = "Processing"
    /\ SaveMessage
    /\ pc' = "Streaming"
    /\ UNCHANGED held

\* line 105: stream.message().await? yields None; line 140 returns Ok(())
StreamEnd ==
    /\ AwaitingMessage(pc)
    /\ pc' = AfterStreamItem("None")
    /\ upstream' = "Ended"
    /\ UNCHANGED <<users, group_users, clock, message, reply, last, lastName, processed, envVars, arrived, written>>

\* line 105: stream.message().await? returns Err
StreamError ==
    /\ AwaitingMessage(pc)
    /\ pc' = AfterStreamItem("Err")
    /\ upstream' = "Errored"
    /\ UNCHANGED <<users, group_users, clock, message, reply, last, lastName, processed, envVars, arrived, written>>

\* variant: a lookup that misses stores a default row for the requested id
GetUserById_Upserts ==
    /\ srv = "Serving"
    /\ reply = NoReply
    /\ \E id \in RequestIds :
          /\ reply' = [op |-> "get_user_by_id",
                       channel_id |-> id,
                       result |-> get_user_by_id(users, group_users, id),
                       row |-> IF id \in DOMAIN users THEN users[id] ELSE NoUser]
          /\ users' = IF id \in DOMAIN users
                      THEN users
                      ELSE save_to_database(users, User_new(id, "", 0, 0, 0, clock, clock))
    /\ UNCHANGED <<group_users, clock, pc, message, last, lastName, processed, envVars, logVars>>

\* A GetUserById request is served.  The handlers contain no await and only
\* read, so requests are taken one at a time: a handler runs when the outcome
\* of the previous one has left the service.
GetUserById ==
    /\ srv = "Serving"
    /\ reply = NoReply
    /\ \E id \in RequestIds :
          reply' = [op |-> "get_user_by_id",
                    channel_id |-> id,
                    result |-> get_user_by_id(users, group_users, id),
                    row |-> IF id \in DOMAIN users THEN users[id] ELSE NoUser]
    /\ UNCHANGED <<users, group_users, clock, pc, message, last, lastName, processed, envVars, logVars>>

\* a request for one of the administrative operations is served
AdminCall ==
    /\ srv = "Serving"
    /\ reply = NoReply
    /\ \E op \in AdminOps :
          reply' = [op |-> op, result |-> admin_stub(op)]
    /\ UNCHANGED <<users, group_users, clock, pc, message, last, lastName, processed, envVars, logVars>>

\* The outcome leaves the service: the response is written to the caller,
\* or, after a panic, the request's task is torn down without one.
Respond ==
    /\ reply # NoReply
    /\ reply' = NoReply
    /\ UNCHANGED <<users, group_users, clock, pc, message, last, lastName, processed, envVars, logVars>>

Next ==
    \/ Tick
    \/ Subscribe
    \/ SubscribeError
    \/ ReceiveMessage
    \/ ProcessMessage
    \/ StreamEnd
    \/ StreamError
    \/ GetUserById
    \/ AdminCall
    \/ Respond

Spec == Init /\ [][Next]_vars

----------------------------------------------------------------------------
(* The query service beside the ingest loop *)

\* A FilterUsers request is served (lines 166-220).
FilterUsers ==
    /\ srv = "Serving"
    /\ reply = NoReply
    /\ \E filters \in FilterLists(MaxFilters), sorting \in SortingFields :
          \E result \in filter_users(users, group_users, filters, sorting) :
              reply' = [op |-> "filter_users",
                        filters |-> filters,
                        sorting |-> sorting,
                        result |-> result,
                        table |-> users]
    /\ UNCHANGED <<users, group_users, clock, pc, message, last, lastName, processed, envVars, logVars>>

NextQuery ==
    \/ Subscribe
    \/ ReceiveMessage
    \/ ProcessMessage
    \/ GetUserById
    \/ FilterUsers
    \/ Respond

\* Both query handlers, interleaved with the ingest loop.
SpecQuery == Init /\ [][NextQuery]_vars

----------------------------------------------------------------------------
(* The two tasks under main's join, with the loop body split where it takes
   its connection, and with the failures of the pool and of the save *)

\* variant: the connection is not given back when the iteration ends
DropConn_Leaked(h) == h

\* line 138: conn goes out of scope at the end of the iteration (and when a
\* panic unwinds the body), which returns it to the pool
DropConn(h) == h - 1

\* line 106: pool.get() returns a connection
AcquireConnection ==
    /\ pc = "Processing"
    /\ held < PoolSize
    /\ held' = held + 1
    /\ pc' = "Holding"
    /\ UNCHANGED <<users, group_users, clock, message, reply, last, lastName, processed, srv, sup, calc, logVars>>

\* line 106: pool.get() returns Err, which ? returns from the loop; the
\* message just received is dropped
AcquireError ==
    /\ pc = "Processing"
    /\ pc' = "PoolFailed"
    /\ message' = NoMessage
    /\ UNCHANGED <<users, group_users, clock, reply, last, lastName, processed, envVars, logVars>>

\* lines 107-138: the body saves the row and drops the connection
SaveUser ==
    /\ pc = "Holding"
    /\ SaveMessage
    /\ held' = DropConn(held)
    /\ pc' = "Streaming"

\* line 137: save_to_database(..) fails and unwrap() panics.  The loop is
\* polled by tokio::join! inside main's own task (lines 371-376), so the panic
\* unwinds through main: the process ends and the listener with it.
SaveError ==
    /\ pc = "Holding"
    /\ pc' = "Panicked"
    /\ held' = DropConn(held)
    /\ message' = NoMessage
    /\ sup' = "Aborted"
    /\ srv' = IF srv = "Serving" THEN "Aborted" ELSE srv
    /\ UNCHANGED <<users, group_users, clock, reply, last, lastName, processed, calc, logVars>>

\* lines 372-374: serve(userservice_address) returns (the listener failed)
ServeStop ==
    /\ srv = "Serving"
    /\ srv' = "Stopped"
    /\ UNCHANGED <<users, group_users, clock, pc, message, reply, last, lastName, processed, sup, held, calc, logVars>>

\* lines 371-378: both futures of tokio::join! are complete, main returns
MainReturn ==
    /\ sup = "Joining"
    /\ pc \in {"Closed", "Failed", "PoolFailed"}
    /\ srv = "Stopped"
    /\ sup' = "Returned"
    /\ UNCHANGED <<users, group_users, clock, pc, message, reply, last, lastName, processed, srv, held, calc, logVars>>

NextSupervisor ==
    \/ Subscribe
    \/ SubscribeError
    \/ ReceiveMessage
    \/ AcquireConnection
    \/ AcquireError
    \/ SaveUser
    \/ SaveError
    \/ StreamEnd
    \/ StreamError
    \/ GetUserById
    \/ Respond
    \/ ServeStop
    \/ MainReturn

SpecSupervisor == Init /\ [][NextSupervisor]_vars

----------------------------------------------------------------------------
(* calculate_hours_and_money applied to user values and instants of its
   domain: stored hours of whole seconds and a sub-second part, and a now
   that is not before last_seen_at *)

CalcHoursSeconds == {0, 1, 3600}
CalcHoursNanos == {0, 500000000, 999999999}
CalcMoney == {0, 60}
CalcLastSeen == {T0, [secs |-> 10, nanos |-> 500000000]}
CalcDeltas ==
    {DurationNanoseconds(0), DurationNanoseconds(1), DurationNanoseconds(500000000),
     DurationSeconds(1), DurationSeconds(59), DurationSeconds(60),
     DurationAdd(DurationMinutes(IdleThresholdMinutes), DurationNanoseconds(1))}

CalcUsers ==
    {User_new("c1", "Alice", hs, hn, mo, T0, ls) :
        hs \in CalcHoursSeconds, hn \in CalcHoursNanos, mo \in CalcMoney, ls \in CalcLastSeen}

\* lines 66-94: one call calculate_hours_and_money(&mut user, &now)
Calculate ==
    /\ \E user \in CalcUsers, delta \in CalcDeltas :
          LET now == DurationAdd(user.last_seen_at, delta)
          IN  calc' = [user |-> user, now |-> now,
                       out |-> calculate_hours_and_money(user, now)]
    /\ UNCHANGED <<users, group_users, clock, pc, message, reply, last, lastName, processed, srv, sup, held, logVars>>

NextCalc == Calculate

SpecCalc == Init /\ [][NextCalc]_vars

----------------------------------------------------------------------------
(* Properties *)

\* the row saved for the last processed message
Saved == users[last.channel_id]

\* the last processed message found a row for its channel_id
LastWasUpdate == last # NoMessage /\ last.before # NoUser

\* now - stored last_seen_at, for the last processed message
LastGap == TimeSub(last.now, last.before.last_seen_at)

C2_BoundaryNoAccrual ==
    (LastWasUpdate /\ last.now = DurationAdd(last.before.last_seen_at, IDLE_THRESHOLD))
    => /\ Saved.hours_seconds = last.before.hours_seconds
       /\ Saved.hours_nanos = last.before.hours_nanos
       /\ Saved.money = last.before.money

C2_Witness ==
    /\ LastWasUpdate
    /\ last.now = DurationAdd(last.before.last_seen_at, IDLE_THRESHOLD)
    /\ last.before.hours_seconds > 0
    /\ Saved.last_seen_at = last.now

C4_CreateOnFirstContact ==
    (last # NoMessage /\ last.before = NoUser)
    => /\ last.channel_id \in DOMAIN users
       /\ Saved = User_new(last.channel_id, last.display_name, 0, 0, 0, last.now, last.now)
       /\ Cardinality(DOMAIN users) = last.rows_before + 1

C4_Witness ==
    /\ last # NoMessage
    /\ last.before = NoUser
    /\ last.rows_before = 1
    /\ TimeLess(T0, last.now)
    /\ Cardinality(DOMAIN users) = 2

\* C5: with a non-decreasing clock, no committed write lowers the persisted
\* hours_seconds or money of any channel_id.
C5_MonotonicLedger ==
    [][\A c \in DOMAIN users :
          c \in DOMAIN users'
          => /\ users'[c].hours_seconds >= users[c].hours_seconds
             /\ users'[c].money >= users[c].money]_vars

C5_Witness ==
    /\ LastWasUpdate
    /\ processed >= 2
    /\ last.before.hours_seconds > 0
    /\ last.before.money > 0
    /\ TimeLess(DurationAdd(last.before.last_seen_at, IDLE_THRESHOLD), last.now)

\* C6: once the loop has processed a message for a channel_id, the persisted
\* display_name of that user is the one carried by the last such message.
C6_DisplayNameLastWriteWins ==
    \A c \in Channels :
        lastName[c] # "none"
        => c \in DOMAIN users /\ users[c].display_name = lastName[c]

C6_Witness ==
    /\ LastWasUpdate
    /\ processed >= 2
    /\ lastName[last.channel_id] = last.display_name
    /\ last.before.display_name \in Names
    /\ last.before.display_name # last.display_name

\* C7: every persisted user has 0 <= hours_nanos < 10^9.
C7_NanosInRange ==
    \A c \in DOMAIN users :
        0 <= users[c].hours_nanos /\ users[c].hours_nanos < NanosPerSec

C7_Witness ==
    /\ LastWasUpdate
    /\ last.before.hours_seconds = 0
    /\ TimeLess(DurationAdd(last.before.last_seen_at, IDLE_THRESHOLD), last.now)
    /\ LastGap.nanos > 0

\* C8: with a non-decreasing clock every persisted user has
\* last_seen_at >= first_seen_at, and after a processed message the user's
\* persisted last_seen_at is the now read for that message.
C8_TimestampOrdering ==
    /\ \A c \in DOMAIN users : TimeLeq(users[c].first_seen_at, users[c].last_seen_at)
    /\ last # NoMessage => Saved.last_seen_at = last.now

C8_Witness ==
    /\ LastWasUpdate
    /\ TimeLess(last.before.last_seen_at, last.now)
    /\ TimeLess(Saved.first_seen_at, Saved.last_seen_at)
    /\ TimeLess(T0, Saved.first_seen_at)

\* C9: every administrative operation completes by returning an
\* "unimplemented" error to the caller.
C9_AdminReturnsUnimplemented ==
    reply.op \in AdminOps
    => reply.result = [kind |-> "Err", status |-> "unimplemented"]

\* C10: GetUserById returns the view of the persisted row whose channel_id is
\* the requested one when there is such a row, and a not_found error, never a
\* view, when there is none.
C10_GetUserById ==
    reply.op = "get_user_by_id"
    => IF reply.row # NoUser
       THEN /\ reply.result = [kind |-> "Ok",
                               user |-> to_userservice_user(reply.row, group_users)]
            /\ reply.result.user.channel_id = reply.channel_id
       ELSE reply.result = [kind |-> "Err", status |-> "not_found"]

C10_Witness ==
    /\ reply.op = "get_user_by_id"
    /\ reply.row # NoUser
    /\ reply.result.kind = "Ok"
    /\ lastName[reply.channel_id] # "none"
    /\ reply.result.user.display_name = lastName[reply.channel_id]

\* a row satisfies one filter clause, as the clause reads
Satisfies(row, clause) ==
    /\ clause.kind = "ChannelId" => row.channel_id = clause.value
    /\ clause.kind = "Name" => row.display_name = clause.value
    /\ clause.kind = "Hours" => row.hours_seconds = clause.value
    /\ clause.kind = "Money" => row.money = clause.value

\* the views of the rows, persisted when the request was served, that satisfy
\* every clause of the request
ExpectedViews ==
    {to_userservice_user(reply.table[k], group_users) :
        k \in {x \in DOMAIN reply.table :
                 \A i \in 1..Len(reply.filters) : Satisfies(reply.table[x], reply.filters[i])}}

\* the users a FilterUsers response lists, as a set
ReturnedViews == {reply.result.users[i] : i \in 1..Len(reply.result.users)}

\* C11: for a list of filter clauses (channel_id = s, display_name = s,
\* hours_seconds = n, money = n) FilterUsers returns exactly the persisted
\* users that satisfy every clause, each once; an empty list returns all
\* persisted users; the single clause channel_id = c of a persisted user
\* returns exactly that user; count is the length of the returned list.
C11_FilterResultSet ==
    (reply.op = "filter_users"
     /\ \A i \in 1..Len(reply.filters) : reply.filters[i].kind # "Unset")
    => /\ reply.result.kind = "Ok"
       /\ ReturnedViews = ExpectedViews
       /\ Len(reply.result.users) = Cardinality(ExpectedViews)
       /\ reply.result.count = Len(reply.result.users)
       /\ reply.filters = <<>>
          => reply.result.count = Cardinality(DOMAIN reply.table)
       /\ \A c \in DOMAIN reply.table :
             reply.filters = <<[kind |-> "ChannelId", value |-> c]>>
             => reply.result.users = <<to_userservice_user(reply.table[c], group_users)>>

C11_Witness ==
    /\ reply.op = "filter_users"
    /\ Len(reply.filters) = 2
    /\ reply.result.kind = "Ok"
    /\ reply.result.count = 1
    /\ processed >= 1
    /\ \E k \in DOMAIN reply.table :
          /\ Satisfies(reply.table[k], reply.filters[1])
          /\ ~Satisfies(reply.table[k], reply.filters[2])
    /\ \E k \in DOMAIN reply.table :
          /\ ~Satisfies(reply.table[k], reply.filters[1])
          /\ Satisfies(reply.table[k], reply.filters[2])

\* C12: with hours_asc / hours_desc the returned list is non-decreasing /
\* non-increasing in hours_seconds, with money_asc / money_desc in money; the
\* sorting does not change which users are returned; users c1 (3600),
\* c2 (7200), c3 (60) with no filters and hours_desc come as [c2, c1, c3]
\* with count 3.
C12_FilterOrdering ==
    (reply.op = "filter_users" /\ reply.result.kind = "Ok")
    => LET u == reply.result.users
           adjacent == {i \in 1..Len(u) : i < Len(u)}
       IN  /\ reply.sorting = "HoursAsc"
              => \A i \in adjacent : u[i].hours_seconds <= u[i + 1].hours_seconds
           /\ reply.sorting = "HoursDesc"
              => \A i \in adjacent : u[i].hours_seconds >= u[i + 1].hours_seconds
           /\ reply.sorting = "MoneyAsc"
              => \A i \in adjacent : u[i].money <= u[i + 1].money
           /\ reply.sorting = "MoneyDesc"
              => \A i \in adjacent : u[i].money >= u[i + 1].money
           /\ ReturnedViews = ExpectedViews
           /\ (/\ reply.filters = <<>>
               /\ reply.sorting = "HoursDesc"
               /\ DOMAIN reply.table = {"c1", "c2", "c3"}
               /\ reply.table["c1"].hours_seconds = 3600
               /\ reply.table["c2"].hours_seconds = 7200
               /\ reply.table["c3"].hours_seconds = 60)
              => /\ [i \in 1..Len(u) |-> u[i].channel_id] = <<"c2", "c1", "c3">>
                 /\ reply.result.count = 3

C12_Witness ==
    /\ reply.op = "filter_users"
    /\ reply.sorting = "HoursDesc"
    /\ reply.filters = <<>>
    /\ reply.result.kind = "Ok"
    /\ Len(reply.result.users) = 3
    /\ reply.result.users[1].hours_seconds > reply.result.users[2].hours_seconds
    /\ reply.result.users[2].hours_seconds > reply.result.users[3].hours_seconds

\* C13: the loop ends with success when the upstream signals end of stream
\* and with failure when the upstream reports a transport error (on subscribing
\* or on a later poll); in both cases every message received until then has
\* been saved, and nothing is received or saved afterwards.
C13_LoopTermination ==
    [][ /\ upstream' = "Ended" => pc' = "Closed"
        /\ upstream' = "Errored" => pc' = "Failed"
        /\ pc' \in {"Closed", "Failed"}
           => /\ written' = arrived'
              /\ message' = NoMessage
        /\ pc \in {"Closed", "Failed"}
           => /\ pc' = pc
              /\ users' = users
              /\ arrived' = arrived
              /\ written' = written ]_vars

C13_Witness ==
    /\ pc = "Closed"
    /\ upstream = "Ended"
    /\ Len(arrived) = 2
    /\ written = arrived

\* C14: messages are handled strictly one after the other: the saves commit
\* in the order the messages arrived, at most one message is between its
\* arrival and its save, and whenever the loop waits for the next message the
\* save of every earlier one has committed (so two messages of one channel
\* are applied in arrival order).
C14_SequentialProcessing ==
    /\ Len(written) <= Len(arrived)
    /\ Len(arrived) - Len(written) <= 1
    /\ written = SubSeq(arrived, 1, Len(written))
    /\ pc = "Streaming" => written = arrived
    /\ message # NoMessage
       => /\ Len(arrived) = Len(written) + 1
          /\ message = arrived[Len(arrived)]
    /\ (Len(written) > 0 /\ last # NoMessage)
       => /\ last.channel_id = written[Len(written)].channel_id
          /\ last.display_name = written[Len(written)].display_name
          /\ users[last.channel_id].display_name = last.display_name

C14_Witness ==
    /\ Len(written) = 2
    /\ written[1].channel_id = written[2].channel_id
    /\ written[1].display_name # written[2].display_name
    /\ users[written[2].channel_id].display_name = written[2].display_name
    /\ pc = "Streaming"

\* C15: for a user with hours_seconds >= 0 and 0 <= hours_nanos < 10^9 and
\* a now >= last_seen_at, with total = stored hours + (now - last_seen_at),
\* calculate_hours_and_money leaves hours_seconds = whole seconds of total,
\* hours_nanos = the sub-second remainder of total (0 <= hours_nanos < 10^9),
\* money = money + floor((now - last_seen_at) / 60 s), and last_seen_at as
\* it was.
C15_CalculatorResult ==
    calc # NoCalc
    => LET u     == calc.user
           delta == TimeSub(calc.now, u.last_seen_at)
           total == DurationAdd([secs |-> u.hours_seconds, nanos |-> u.hours_nanos], delta)
       IN  /\ calc.out.hours_seconds = total.secs
           /\ calc.out.hours_nanos = total.nanos
           /\ 0 <= calc.out.hours_nanos
           /\ calc.out.hours_nanos < NanosPerSec
           /\ calc.out.money = u.money + (delta.secs \div SecsPerMinute)
           /\ calc.out.last_seen_at = u.last_seen_at

\* C16: the ingest loop and the query service end independently: a step in
\* which the loop terminates (end of stream, transport error, or a failure
\* while handling a message) leaves the query service as it was, a step in
\* which the listener stops leaves the loop as it was, and main returns only
\* when both have terminated.
C16_SupervisorIndependence ==
    [][ /\ (pc' # pc /\ pc' \in {"Closed", "Failed", "PoolFailed", "Panicked"})
           => srv' = srv
        /\ srv' # srv => pc' = pc
        /\ sup' # "Joining"
           => /\ pc' \in {"Closed", "Failed", "PoolFailed", "Panicked"}
              /\ srv' # "Serving"
              /\ sup' = "Returned" ]_vars

\* C17: the ingest loop holds at most one pool connection, takes it only
\* once a message has been received, and has given it back on every way out
\* of the per-message step: while it waits for the next message, and after it
\* has terminated, it holds none.
C17_ConnectionScoping ==
    /\ held \in {0, 1}
    /\ held = 1
       => /\ pc = "Holding"
          /\ message # NoMessage
          /\ Len(arrived) = Len(written) + 1
    /\ pc \in {"Idle", "Streaming", "Processing", "Closed", "Failed", "PoolFailed", "Panicked"}
       => held = 0

C17_Witness ==
    /\ pc = "Panicked"
    /\ processed = 1
    /\ Len(arrived) = 2
    /\ held = 0

\* C18: whatever the ingest loop is doing meanwhile, answering GetUserById
\* or FilterUsers creates, changes and deletes no user row (and no group
\* membership); every step that changes the users table is the save of the
\* message the ingest loop is handling.
C18_QueryReadOnly ==
    [][ /\ (reply' # reply /\ reply'.op \in {"get_user_by_id", "filter_users"})
           => /\ users' = users
              /\ group_users' = group_users
        /\ users' # users
           => /\ pc = "Processing"
              /\ message # NoMessage
              /\ reply' = reply
              /\ written' = Append(written, message)
              /\ \A c \in DOMAIN users' :
                    (c \notin DOMAIN users \/ users'[c] # users[c])
                    => c = message.channel_id ]_vars

C18_Witness ==
    /\ reply.op = "filter_users"
    /\ reply.result.kind = "Ok"
    /\ reply.table = users
    /\ processed = 1
    /\ pc = "Processing"
    /\ message.channel_id \notin DOMAIN users

\* C19: under ingest and queries a row that exists for a channel_id exists
\* in every later state with the first_seen_at it was created with; the set
\* of persisted channel_ids only grows.
C19_UserPermanence ==
    [][ /\ DOMAIN users \subseteq DOMAIN users'
        /\ \A c \in DOMAIN users :
              users'[c].first_seen_at = users[c].first_seen_at ]_vars

C19_Witness ==
    /\ processed = 2
    /\ last # NoMessage
    /\ last.before # NoUser
    /\ last.before.first_seen_at # T0
    /\ users[last.channel_id].first_seen_at = last.before.first_seen_at
    /\ users[last.channel_id].last_seen_at # last.before.last_seen_at

\* C20: handling one message with channel_id c is exactly one save, of the
\* row keyed by c: every row under another key is left as it was in all
\* fields, no other key appears, and the saved row carries c as its
\* channel_id.
C20_WriteFootprint ==
    [][ processed' # processed
        => /\ message # NoMessage
           /\ processed' = processed + 1
           /\ written' = Append(written, message)
           /\ DOMAIN users' = DOMAIN users \cup {message.channel_id}
           /\ users'[message.channel_id].channel_id = message.channel_id
           /\ \A k \in DOMAIN users \ {message.channel_id} : users'[k] = users[k] ]_vars

C20_Witness ==
    /\ processed = 2
    /\ written[1].channel_id # written[2].channel_id
    /\ users[written[1].channel_id].display_name = written[1].display_name
    /\ users[written[1].channel_id].last_seen_at # users[written[2].channel_id].last_seen_at
    /\ Cardinality(DOMAIN users) = 2

====
